---------------------------- MODULE Spec2Model ----------------------------
(***************************************************************************)
(* Model of the Thinki question generator (src/main.py): the context       *)
(* formatter, the prompt builder, the response parser and the two generate *)
(* endpoints.                                                              *)
(*                                                                         *)
(* Text is a sequence of one-character strings, so that str.replace,       *)
(* re.sub, re.search, str.strip and json.loads act on characters as they   *)
(* do in the program.                                                      *)
(***************************************************************************)
EXTENDS Integers, Sequences, FiniteSets, TLC

VARIABLES
    response_text,  \* parse_llm_response: its argument
    parsed,         \* parse_llm_response: what the call did (see parse_llm_response)
    pstate,         \* "input" before the call, "called" after it
    context,        \* format_context_fields: its argument, a Context
    context_lines,  \* format_context_fields: the list it has built
    context_str,    \* format_context_fields: the text it returns
    fstate,         \* "input" before the call, "called" after it
    request,        \* the QuestionRequest at hand
    prompt,         \* what generate_prompt returned
    gstate,         \* "input" before the call of generate_prompt, "called" after
    endpoint,       \* the endpoint called: English or Math
    pc,             \* where the endpoint's handler stands
    calls,          \* how each call of model.generate_content ended
    response        \* what the handler answered

parseVars == <<response_text, parsed, pstate>>
formatVars == <<context, context_lines, context_str, fstate>>
promptVars == <<request, prompt, gstate>>
handlerVars == <<endpoint, pc, calls, response>>
vars == <<parseVars, formatVars, promptVars, handlerVars>>

-----------------------------------------------------------------------------
(* Characters and elementary string operations                             *)

Whitespace == {" ", "\n", "\t", "\r"}
Digits == {"0", "1", "2", "3", "4", "5", "6", "7", "8", "9"}

\* s[i], or "" past either end
At(s, i) == IF i \in 1..Len(s) THEN s[i] ELSE ""

\* s[i:]
From(s, i) == SubSeq(s, i, Len(s))

\* s.startswith(p, i-1)
MatchesAt(s, p, i) ==
    /\ i + Len(p) - 1 <= Len(s)
    /\ \A k \in 1..Len(p) : s[i + k - 1] = p[k]

\* s.find(p, i-1) + 1: the first occurrence of p in s at or behind i, or 0
NextMatch(s, p, i) ==
    IF \E j \in i..Len(s) : MatchesAt(s, p, j)
    THEN CHOOSE j \in i..Len(s) :
             MatchesAt(s, p, j) /\ \A k \in i..(j - 1) : ~MatchesAt(s, p, k)
    ELSE 0

\* p in s
Contains(s, p) == \E i \in 1..(Len(s) + 1) : MatchesAt(s, p, i)

RECURSIVE Concat(_)
Concat(ss) == IF ss = <<>> THEN <<>> ELSE Head(ss) \o Concat(Tail(ss))

\* str.strip()
RECURSIVE LStrip(_)
LStrip(s) == IF s # <<>> /\ Head(s) \in Whitespace THEN LStrip(Tail(s)) ELSE s

RECURSIVE RStrip(_)
RStrip(s) ==
    IF s # <<>> /\ s[Len(s)] \in Whitespace
    THEN RStrip(SubSeq(s, 1, Len(s) - 1))
    ELSE s

Strip(s) == RStrip(LStrip(s))

\* sep.join(ss)
RECURSIVE Join(_, _)
Join(ss, sep) ==
    IF ss = <<>> THEN <<>>
    ELSE IF Len(ss) = 1 THEN ss[1]
    ELSE ss[1] \o sep \o Join(Tail(ss), sep)

DigitChars == <<"0", "1", "2", "3", "4", "5", "6", "7", "8", "9">>

RECURSIVE NatStr(_)
NatStr(n) ==
    IF n < 10 THEN <<DigitChars[n + 1]>>
    ELSE NatStr(n \div 10) \o <<DigitChars[(n % 10) + 1]>>

\* str(n) of an int
IntStr(n) == IF n < 0 THEN <<"-">> \o NatStr(-n) ELSE NatStr(n)

\* str(x) of a float that is a whole number of tenths, x = tenths / 10
FloatStr(tenths) == NatStr(tenths \div 10) \o <<".">> \o NatStr(tenths % 10)

LowerLetters == <<"a", "b", "c", "d", "e", "f", "g", "h", "i", "j", "k", "l", "m",
                  "n", "o", "p", "q", "r", "s", "t", "u", "v", "w", "x", "y", "z">>
UpperLetters == <<"A", "B", "C", "D", "E", "F", "G", "H", "I", "J", "K", "L", "M",
                  "N", "O", "P", "Q", "R", "S", "T", "U", "V", "W", "X", "Y", "Z">>

IsLower(c) == \E n \in 1..26 : LowerLetters[n] = c
IsUpper(c) == \E n \in 1..26 : UpperLetters[n] = c
IsCased(c) == IsLower(c) \/ IsUpper(c)

ToUpper(c) == IF IsLower(c) THEN UpperLetters[CHOOSE n \in 1..26 : LowerLetters[n] = c] ELSE c
ToLower(c) == IF IsUpper(c) THEN LowerLetters[CHOOSE n \in 1..26 : UpperLetters[n] = c] ELSE c

\* str.lower()
Lower(s) == [i \in 1..Len(s) |-> ToLower(s[i])]

\* str.replace(old, new) for a one-character old
ReplaceChar(s, old, new) == [i \in 1..Len(s) |-> IF s[i] = old THEN new ELSE s[i]]

\* str.title(): a cased character is upper-cased behind an uncased one (or at
\* the start) and lower-cased behind a cased one
Title(s) ==
    [i \in 1..Len(s) |->
        IF ~IsCased(s[i]) THEN s[i]
        ELSE IF i > 1 /\ IsCased(s[i - 1]) THEN ToLower(s[i])
        ELSE ToUpper(s[i])]

\* Values of open type: None, an int, a str
None == [t |-> "none", v |-> <<>>]
IntVal(n) == [t |-> "int", v |-> n]
StrVal(s) == [t |-> "str", v |-> s]

\* str(value)
ToStr(x) ==
    CASE x.t = "int" -> IntStr(x.v)
      [] x.t = "str" -> x.v
      [] x.t = "none" -> <<"N", "o", "n", "e">>

-----------------------------------------------------------------------------
(* json.loads: the strict decoder.  A decoded value is a record            *)
(*   [t |-> "list", v |-> <<values>>]   [t |-> "dict", v |-> <<[k, val]>>] *)
(*   [t |-> "str",  v |-> characters]   [t |-> "num",  v |-> its lexeme]   *)
(*   [t |-> "lit",  v |-> null, true, false, NaN, Infinity, -Infinity]     *)
(* A decode step returns [ok, val, end]: end is the index after the value. *)

Fail == [ok |-> FALSE, val |-> <<>>, end |-> 0]
Ok(value, next) == [ok |-> TRUE, val |-> value, end |-> next]

RECURSIVE SkipWs(_, _)
SkipWs(s, i) == IF At(s, i) \in Whitespace THEN SkipWs(s, i + 1) ELSE i

RECURSIVE ScanDigits(_, _)
ScanDigits(s, i) == IF At(s, i) \in Digits THEN ScanDigits(s, i + 1) ELSE i

Escapes == [c \in {"\"", "\\", "/", "b", "f", "n", "r", "t"} |->
              CASE c = "n" -> "\n"
                [] c = "t" -> "\t"
                [] c = "r" -> "\r"
                [] c = "b" -> "BS"
                [] c = "f" -> "FF"
                [] OTHER -> c]

\* scanstring (strict): i is the index after the opening quote
RECURSIVE ScanString(_, _, _)
ScanString(s, i, acc) ==
    IF i > Len(s) THEN Fail
    ELSE IF s[i] = "\"" THEN Ok([t |-> "str", v |-> acc], i + 1)
    ELSE IF s[i] = "\\"
         THEN IF At(s, i + 1) \in DOMAIN Escapes
              THEN ScanString(s, i + 2, Append(acc, Escapes[s[i + 1]]))
              ELSE Fail
    ELSE IF s[i] \in {"\n", "\t", "\r"} THEN Fail
    ELSE ScanString(s, i + 1, Append(acc, s[i]))

Literals == << <<"n", "u", "l", "l">>, <<"t", "r", "u", "e">>,
               <<"f", "a", "l", "s", "e">>, <<"N", "a", "N">>,
               <<"I", "n", "f", "i", "n", "i", "t", "y">>,
               <<"-", "I", "n", "f", "i", "n", "i", "t", "y">> >>

\* NUMBER_RE: (-?(?:0|[1-9]\d*))(\.\d+)?([eE][-+]?\d+)?
ScanNumber(s, i) ==
    LET d == IF At(s, i) = "-" THEN i + 1 ELSE i
        intEnd == IF At(s, d) = "0" THEN d + 1 ELSE ScanDigits(s, d)
        fracEnd == IF At(s, intEnd) = "." /\ At(s, intEnd + 1) \in Digits
                   THEN ScanDigits(s, intEnd + 1)
                   ELSE intEnd
        e == IF At(s, fracEnd + 1) \in {"+", "-"} THEN fracEnd + 2 ELSE fracEnd + 1
        expEnd == IF At(s, fracEnd) \in {"e", "E"} /\ At(s, e) \in Digits
                  THEN ScanDigits(s, e)
                  ELSE fracEnd
    IN  IF At(s, d) \in Digits
        THEN Ok([t |-> "num", v |-> SubSeq(s, i, expEnd - 1)], expEnd)
        ELSE Fail

RECURSIVE ScanOnce(_, _)
RECURSIVE ScanArray(_, _, _)
RECURSIVE ScanObject(_, _, _)

\* JSONArray, after "[" and the whitespace behind it: i is at a value
ScanArray(s, i, acc) ==
    LET r == ScanOnce(s, i) IN
    IF ~r.ok THEN Fail
    ELSE LET j == SkipWs(s, r.end)
             vals == Append(acc, r.val)
         IN  IF At(s, j) = "]" THEN Ok([t |-> "list", v |-> vals], j + 1)
             ELSE IF At(s, j) = "," THEN ScanArray(s, SkipWs(s, j + 1), vals)
             ELSE Fail

\* JSONObject: i is where a key's opening quote must be
ScanObject(s, i, acc) ==
    IF At(s, i) # "\"" THEN Fail
    ELSE LET key == ScanString(s, i + 1, <<>>) IN
         IF ~key.ok THEN Fail
         ELSE LET c == SkipWs(s, key.end) IN
              IF At(s, c) # ":" THEN Fail
              ELSE LET r == ScanOnce(s, SkipWs(s, c + 1)) IN
                   IF ~r.ok THEN Fail
                   ELSE LET j == SkipWs(s, r.end)
                            pairs == Append(acc, [k |-> key.val.v, val |-> r.val])
                        IN  IF At(s, j) = "}"
                            THEN Ok([t |-> "dict", v |-> pairs], j + 1)
                            ELSE IF At(s, j) = ","
                            THEN ScanObject(s, SkipWs(s, j + 1), pairs)
                            ELSE Fail

\* scan_once
ScanOnce(s, i) ==
    LET c == At(s, i) IN
    IF c = "\"" THEN ScanString(s, i + 1, <<>>)
    ELSE IF c = "{"
         THEN LET j == SkipWs(s, i + 1) IN
              IF At(s, j) = "}" THEN Ok([t |-> "dict", v |-> <<>>], j + 1)
              ELSE ScanObject(s, j, <<>>)
    ELSE IF c = "["
         THEN LET j == SkipWs(s, i + 1) IN
              IF At(s, j) = "]" THEN Ok([t |-> "list", v |-> <<>>], j + 1)
              ELSE ScanArray(s, j, <<>>)
    ELSE IF \E n \in 1..3 : MatchesAt(s, Literals[n], i)
         THEN LET n == CHOOSE n \in 1..3 : MatchesAt(s, Literals[n], i)
              IN  Ok([t |-> "lit", v |-> Literals[n]], i + Len(Literals[n]))
    ELSE IF ScanNumber(s, i).ok THEN ScanNumber(s, i)
    ELSE IF \E n \in 4..6 : MatchesAt(s, Literals[n], i)
         THEN LET n == CHOOSE n \in 4..6 : MatchesAt(s, Literals[n], i)
              IN  Ok([t |-> "lit", v |-> Literals[n]], i + Len(Literals[n]))
    ELSE Fail

\* json.loads(s): one value, whitespace around it, nothing else
JsonLoads(s) ==
    LET r == ScanOnce(s, SkipWs(s, 1)) IN
    IF r.ok /\ SkipWs(s, r.end) = Len(s) + 1 THEN r ELSE Fail

IsList(x) == x.t = "list"
IsDict(x) == x.t = "dict"

\* key in d
HasKey(d, key) == \E n \in 1..Len(d.v) : d.v[n].k = key

\* d[key]: a repeated key keeps its last value
Lookup(d, key) ==
    LET n == CHOOSE n \in 1..Len(d.v) :
                 /\ d.v[n].k = key
                 /\ \A m \in (n + 1)..Len(d.v) : d.v[m].k # key
    IN  d.v[n].val

-----------------------------------------------------------------------------
(* parse_llm_response                                                      *)

\* the grave accent U+0060, which a TLA+ string cannot hold
Backquote == "GRAVE"
Fence == <<Backquote, Backquote, Backquote>>
FenceJson == Fence \o <<"j", "s", "o", "n">>
QuestionsKey == <<"q", "u", "e", "s", "t", "i", "o", "n", "s">>

\* re.sub(marker + r'\n?', '', s): every occurrence, left to right, each with
\* the newline that follows it
RECURSIVE ReSubFrom(_, _, _)
ReSubFrom(s, marker, i) ==
    LET j == NextMatch(s, marker, i)
        n == IF At(s, j + Len(marker)) = "\n" THEN Len(marker) + 1 ELSE Len(marker)
    IN  IF j = 0 THEN From(s, i)
        ELSE SubSeq(s, i, j - 1) \o ReSubFrom(s, marker, j + n)

ReSubMarker(s, marker) == ReSubFrom(s, marker, 1)

\* lines 207-209
CleanResponse(text) == Strip(ReSubMarker(ReSubMarker(text, FenceJson), Fence))

NoMatch == [found |-> FALSE, group |-> <<>>]

\* the greedy .* : the last "]" behind position a
LastClose(s, a) ==
    IF \E b \in (a + 1)..Len(s) : s[b] = "]"
    THEN CHOOSE b \in (a + 1)..Len(s) :
             s[b] = "]" /\ \A c \in (b + 1)..Len(s) : s[c] # "]"
    ELSE 0

\* re.search(r'\[.*\]', s, re.DOTALL): the leftmost "[" from which the pattern
\* matches, then as far as it can
RECURSIVE SearchFrom(_, _)
SearchFrom(s, a) ==
    IF a > Len(s) THEN NoMatch
    ELSE IF s[a] = "[" /\ LastClose(s, a) # 0
         THEN [found |-> TRUE, group |-> SubSeq(s, a, LastClose(s, a))]
    ELSE SearchFrom(s, a + 1)

\* a variant of the search whose .* is not greedy: it stops at the first "]"
FirstClose(s, a) ==
    IF \E b \in (a + 1)..Len(s) : s[b] = "]"
    THEN CHOOSE b \in (a + 1)..Len(s) :
             s[b] = "]" /\ \A c \in (a + 1)..(b - 1) : s[c] # "]"
    ELSE 0

RECURSIVE LazySearchFrom(_, _)
LazySearchFrom(s, a) ==
    IF a > Len(s) THEN NoMatch
    ELSE IF s[a] = "[" /\ FirstClose(s, a) # 0
         THEN [found |-> TRUE, group |-> SubSeq(s, a, FirstClose(s, a))]
    ELSE LazySearchFrom(s, a + 1)

BracketSearchLazy(s) == LazySearchFrom(s, 1)

BracketSearch(s) == SearchFrom(s, 1)

ParseError == [outcome |-> "raise", value |-> <<>>]
Return(x) == [outcome |-> "return", value |-> x]

\* a variant without the elif branch: a keyed value is wrapped like a scalar
ShapeQuestionsNoUnwrap(questions) ==
    IF IsList(questions) THEN Return(questions)
    ELSE Return([t |-> "list", v |-> <<questions>>])

\* lines 213-218, questions being what json.loads returned
ShapeQuestions(questions) ==
    IF IsList(questions) THEN Return(questions)
    ELSE IF IsDict(questions) /\ HasKey(questions, QuestionsKey)
         THEN Return(Lookup(questions, QuestionsKey))
    ELSE Return([t |-> "list", v |-> <<questions>>])

\* lines 221-229, the handler of json.JSONDecodeError
BracketFallback(cleaned) ==
    LET json_match == BracketSearch(cleaned) IN
    IF json_match.found /\ JsonLoads(json_match.group).ok
    THEN Return(JsonLoads(json_match.group).val)
    ELSE ParseError

\* parse_llm_response.  Beside the outcome the record keeps the cleaned text
\* and whether the JSONDecodeError handler ran.
parse_llm_response(text) ==
    LET cleaned == CleanResponse(text)
        decoded == JsonLoads(cleaned)
        res == IF decoded.ok THEN ShapeQuestions(decoded.val)
               ELSE BracketFallback(cleaned)
    IN  [outcome |-> res.outcome, value |-> res.value,
         cleaned |-> cleaned, fallback |-> ~decoded.ok]

NotCalled == [outcome |-> "none", value |-> <<>>, cleaned |-> <<>>,
              fallback |-> FALSE]

-----------------------------------------------------------------------------
(* The raw texts the parser is run on: up to MaxFrags pieces of model       *)
(* output put one after another.                                           *)

MaxFrags == 3

Frags == <<
    FenceJson \o <<"\n">>,
    Fence,
    <<"[", "{", "\"", "i", "d", "\"", ":", "1", "}", "]">>,
    <<"{", "\"">> \o QuestionsKey \o <<"\"", ":">>,
    <<"}">>,
    <<"1">>,
    <<"h", "i", " ">>,
    <<"[">>,
    <<"]">>,
    <<"[", "\"", "a">>,
    <<"\"", "]">>,
    <<",">>,
    <<"\n">> >>

TextsOf(n) == {Concat([k \in 1..n |-> Frags[f[k]]]) : f \in [1..n -> 1..Len(Frags)]}

RawTexts == UNION {TextsOf(n) : n \in 0..MaxFrags}

ParseInit ==
    /\ response_text \in RawTexts
    /\ parsed = NotCalled
    /\ pstate = "input"

CallParse ==
    /\ pstate = "input"
    /\ parsed' = parse_llm_response(response_text)
    /\ pstate' = "called"
    /\ UNCHANGED response_text

ParseNext == CallParse /\ UNCHANGED <<formatVars, promptVars, handlerVars>>

-----------------------------------------------------------------------------
(* Properties of parse_llm_response (SpecParse)                            *)

Called == pstate = "called"

\* C1: the call either returns a list or raises the parse error; it never
\* returns a value that is not a list.
C1_ReturnsListOrRaises ==
    Called =>
        \/ parsed.outcome = "raise"
        \/ parsed.outcome = "return" /\ IsList(parsed.value)

\* C2: when the strict decode of the cleaned text succeeds the call returns the
\* decoded value if it is a list, the value under "questions" if it is a keyed
\* structure with that key, and otherwise the one-element list of the decoded
\* value; the bracket-span fallback is not consulted.
C2_StrictDecodeShapes ==
    Called =>
        LET d == JsonLoads(parsed.cleaned)
            keyed == {n \in 1..Len(d.val.v) : d.val.v[n].k = QuestionsKey}
        IN  d.ok =>
              /\ parsed.outcome = "return"
              /\ ~parsed.fallback
              /\ CASE d.val.t = "list" -> parsed.value = d.val
                   [] d.val.t = "dict" /\ keyed # {} ->
                          \E n \in keyed :
                              /\ \A m \in keyed : m <= n
                              /\ parsed.value = d.val.v[n].val
                   [] OTHER ->
                          /\ parsed.value.t = "list"
                          /\ parsed.value.v = <<d.val>>

C2_Witness ==
    /\ Called
    /\ JsonLoads(parsed.cleaned).ok
    /\ JsonLoads(parsed.cleaned).val.t = "dict"
    /\ HasKey(JsonLoads(parsed.cleaned).val, QuestionsKey)
    /\ parsed.outcome = "return"

\* C3: the bracket-span fallback runs exactly when the strict decode of the
\* cleaned text failed; it decodes the text from the first "[" to the last "]"
\* and returns that value, or raises the parse error when there is no such span
\* or its decode fails; so the parse error is raised if and only if every
\* decode attempt failed.
C3_FallbackAfterFailure ==
    Called =>
        LET c == parsed.cleaned
            opens == {i \in 1..Len(c) : c[i] = "["}
            closes == {i \in 1..Len(c) : c[i] = "]"}
            hasSpan == \E a \in opens : \E b \in closes : a < b
            first == CHOOSE a \in opens : \A x \in opens : a <= x
            last == CHOOSE b \in closes : \A x \in closes : x <= b
            spanOk == hasSpan /\ JsonLoads(SubSeq(c, first, last)).ok
        IN  /\ parsed.fallback <=> ~JsonLoads(c).ok
            /\ parsed.fallback /\ spanOk =>
                   /\ parsed.outcome = "return"
                   /\ parsed.value = JsonLoads(SubSeq(c, first, last)).val
            /\ parsed.outcome = "raise" <=> (~JsonLoads(c).ok /\ ~spanOk)

C3_Witness ==
    /\ Called
    /\ parsed.fallback
    /\ parsed.outcome = "return"
    /\ parsed.cleaned[1] # "["
    /\ parsed.cleaned[Len(parsed.cleaned)] # "]"

\* a fence marker with text other than markers and whitespace on both sides
InteriorFence(text) ==
    \E i \in 1..Len(text) :
        /\ MatchesAt(text, Fence, i)
        /\ \E j \in 1..(i - 1) : text[j] \notin Whitespace \cup {Backquote}
        /\ \E j \in (i + 3)..Len(text) : text[j] \notin Whitespace \cup {Backquote}

\* C10: Stage 1 removes only a fence marker at the start and at the end of the
\* raw text; a fence marker in the interior of the text is still in the cleaned
\* text that is decoded.
C10_InteriorFenceKept ==
    Called /\ InteriorFence(response_text) => Contains(parsed.cleaned, Fence)

-----------------------------------------------------------------------------
(* format_context_fields.  A Context is                                    *)
(*   [age, onboarding_english_score, onboarding_math_score, language,      *)
(*    extra]: the scores are None or IntVal(n), extra is the sequence of the  *)
(*    additional fields [k |-> name, v |-> value] in the order supplied.   *)

AgeLabel == <<"-", " ", "A", "g", "e", ":", " ">>
EnglishLabel == <<"-", " ", "O", "n", "b", "o", "a", "r", "d", "i", "n", "g", " ",
                  "E", "n", "g", "l", "i", "s", "h", " ", "S", "c", "o", "r", "e",
                  ":", " ">>
MathLabel == <<"-", " ", "O", "n", "b", "o", "a", "r", "d", "i", "n", "g", " ",
               "M", "a", "t", "h", " ", "S", "c", "o", "r", "e", ":", " ">>
LanguageLabel == <<"-", " ", "L", "a", "n", "g", "u", "a", "g", "e", ":", " ">>

\* context.dict(exclude_none=True), less the four standard fields (lines 80-84)
RECURSIVE ExtraItems(_)
ExtraItems(extra) ==
    IF extra = <<>> THEN <<>>
    ELSE IF Head(extra).v = None THEN ExtraItems(Tail(extra))
    ELSE <<Head(extra)>> \o ExtraItems(Tail(extra))

\* lines 86-87
ExtraLine(item) ==
    <<"-", " ">> \o Title(ReplaceChar(item.k, "_", " ")) \o <<":", " ">>
        \o ToStr(item.v)

\* a variant that emits the additional fields before the language line
FormatContextLinesExtrasFirst(ctx) ==
    <<AgeLabel \o IntStr(ctx.age)>>
    \o (IF ctx.onboarding_english_score # None
        THEN <<EnglishLabel \o IntStr(ctx.onboarding_english_score.v)>>
        ELSE <<>>)
    \o (IF ctx.onboarding_math_score # None
        THEN <<MathLabel \o IntStr(ctx.onboarding_math_score.v)>>
        ELSE <<>>)
    \o [n \in 1..Len(ExtraItems(ctx.extra)) |-> ExtraLine(ExtraItems(ctx.extra)[n])]
    \o <<LanguageLabel \o ctx.language>>

\* lines 65-87: context_lines when the loop has ended
FormatContextLines(ctx) ==
    <<AgeLabel \o IntStr(ctx.age)>>
    \o (IF ctx.onboarding_english_score # None
        THEN <<EnglishLabel \o IntStr(ctx.onboarding_english_score.v)>>
        ELSE <<>>)
    \o (IF ctx.onboarding_math_score # None
        THEN <<MathLabel \o IntStr(ctx.onboarding_math_score.v)>>
        ELSE <<>>)
    \o <<LanguageLabel \o ctx.language>>
    \o [n \in 1..Len(ExtraItems(ctx.extra)) |-> ExtraLine(ExtraItems(ctx.extra)[n])]

\* format_context_fields
format_context_fields(ctx) == Join(FormatContextLines(ctx), <<"\n">>)

-----------------------------------------------------------------------------
(* The contexts the formatter is run on                                    *)

MaxExtras == 2

LearningStyle == <<"l", "e", "a", "r", "n", "i", "n", "g", "_", "s", "t", "y", "l", "e">>
Interests == <<"i", "n", "t", "e", "r", "e", "s", "t", "s">>
Visual == <<"v", "i", "s", "u", "a", "l">>
En == <<"e", "n">>
Sv == <<"s", "v">>

ExtraKeys == {LearningStyle, Interests, <<"i", "Q", "2", "x">>}
ExtraValues == {None, StrVal(Visual), IntVal(3)}
ExtraFields == [k : ExtraKeys, v : ExtraValues]

\* sequences of up to n additional fields, no name twice
ExtrasUpTo(n) ==
    UNION {{e \in [1..m -> ExtraFields] :
                \A i, j \in 1..m : i # j => e[i].k # e[j].k} : m \in 0..n}

Contexts ==
    [age : {7, 12},
     onboarding_english_score : {None, IntVal(0), IntVal(85)},
     onboarding_math_score : {None, IntVal(90)},
     language : {En, Sv},
     extra : ExtrasUpTo(MaxExtras)]

FormatInit ==
    /\ context \in Contexts
    /\ context_lines = <<>>
    /\ context_str = <<>>
    /\ fstate = "input"

CallFormat ==
    /\ fstate = "input"
    /\ context_lines' = FormatContextLines(context)
    /\ context_str' = format_context_fields(context)
    /\ fstate' = "called"
    /\ UNCHANGED context

FormatNext == CallFormat /\ UNCHANGED <<parseVars, promptVars, handlerVars>>

-----------------------------------------------------------------------------
(* Properties of format_context_fields (SpecFormat)                        *)

Formatted == fstate = "called"

\* the name of an additional field as the claim describes it: underscores
\* turned into spaces, the first letter of each word a capital
NiceKey(key, shown) ==
    /\ Len(shown) = Len(key)
    /\ \A i \in 1..Len(key) :
          /\ key[i] = "_" => shown[i] = " "
          /\ IsCased(key[i]) /\ (i = 1 \/ key[i - 1] \in {"_", " "}) =>
                 shown[i] = ToUpper(key[i])
          /\ ToLower(shown[i]) = ToLower(IF key[i] = "_" THEN " " ELSE key[i])

\* line is "- <nice name>: <value>" for the additional field item
IsExtraLine(line, item) ==
    /\ Len(line) = Len(item.k) + Len(ToStr(item.v)) + 4
    /\ SubSeq(line, 1, 2) = <<"-", " ">>
    /\ NiceKey(item.k, SubSeq(line, 3, Len(item.k) + 2))
    /\ SubSeq(line, Len(item.k) + 3, Len(item.k) + 4) = <<":", " ">>
    /\ From(line, Len(item.k) + 5) = ToStr(item.v)

\* the lines are: age; the English score if not None; the Math score if not
\* None; language; then one line for each field of extras, in order
LinesInOrder(lines, ctx, extras) ==
    LET e == IF ctx.onboarding_english_score # None THEN 1 ELSE 0
        m == IF ctx.onboarding_math_score # None THEN 1 ELSE 0
    IN  /\ Len(lines) = 2 + e + m + Len(extras)
        /\ lines[1] = AgeLabel \o IntStr(ctx.age)
        /\ e = 1 => lines[2] = EnglishLabel \o IntStr(ctx.onboarding_english_score.v)
        /\ m = 1 => lines[2 + e] = MathLabel \o IntStr(ctx.onboarding_math_score.v)
        /\ lines[2 + e + m] = LanguageLabel \o ctx.language
        /\ \A n \in 1..Len(extras) : IsExtraLine(lines[2 + e + m + n], extras[n])

\* C8 as stated: age first, then the English score and the Math score when
\* non-null, then language, then one line for each extra field in the order
\* supplied, its name with spaces for underscores and each word capitalised.
C8_EveryExtraField ==
    Formatted => LinesInOrder(context_lines, context, context.extra)

\* C8 as amended: the same order, with one line for each extra field whose
\* value is not null; an extra field whose value is null has no line.
C8_NonNullExtraFields ==
    Formatted =>
        LinesInOrder(context_lines, context,
                     SelectSeq(context.extra, LAMBDA f : f.v # None))

C8_Witness ==
    /\ Formatted
    /\ context.onboarding_english_score = None
    /\ context.onboarding_math_score # None
    /\ Len(context.extra) = 2
    /\ context.extra[1].v = None
    /\ context.extra[2].k = LearningStyle
    /\ Len(context_lines) = 4

-----------------------------------------------------------------------------
(* generate_prompt.  A QuestionRequest is                                  *)
(*   [action, year_band, subject, count, ema, context, template, extra]:   *)
(*   template is None or StrVal(text), ema is a number of tenths, extra is *)
(*   the sequence of the additional fields in the order supplied.          *)

\* str.replace(old, new), old not empty: the occurrences left to right, none
\* overlapping another
RECURSIVE ReplaceFrom(_, _, _, _)
ReplaceFrom(s, old, new, i) ==
    LET j == NextMatch(s, old, i) IN
    IF j = 0 THEN From(s, i)
    ELSE SubSeq(s, i, j - 1) \o new \o ReplaceFrom(s, old, new, j + Len(old))

Replace(s, old, new) == ReplaceFrom(s, old, new, 1)

\* f'{{{key}}}'
Placeholder(key) == <<"{">> \o key \o <<"}">>

CountName == <<"c", "o", "u", "n", "t">>
SubjectName == <<"s", "u", "b", "j", "e", "c", "t">>
YearBandName == <<"y", "e", "a", "r", "_", "b", "a", "n", "d">>
EmaName == <<"e", "m", "a">>
AgeName == <<"a", "g", "e">>
LanguageName == <<"l", "a", "n", "g", "u", "a", "g", "e">>
ContextName == <<"c", "o", "n", "t", "e", "x", "t">>

\* a variant of the table without its '{language}' entry
ReservedReplacementsNoLanguage(req) ==
    << [ph |-> Placeholder(CountName), val |-> IntStr(req.count)],
       [ph |-> Placeholder(SubjectName), val |-> req.subject],
       [ph |-> Placeholder(YearBandName), val |-> req.year_band],
       [ph |-> Placeholder(EmaName), val |-> FloatStr(req.ema)],
       [ph |-> Placeholder(AgeName), val |-> IntStr(req.context.age)],
       [ph |-> Placeholder(ContextName), val |-> format_context_fields(req.context)] >>

\* lines 102-110: the dict literal, in the order of its entries
ReservedReplacements(req) ==
    << [ph |-> Placeholder(CountName), val |-> IntStr(req.count)],
       [ph |-> Placeholder(SubjectName), val |-> req.subject],
       [ph |-> Placeholder(YearBandName), val |-> req.year_band],
       [ph |-> Placeholder(EmaName), val |-> FloatStr(req.ema)],
       [ph |-> Placeholder(AgeName), val |-> IntStr(req.context.age)],
       [ph |-> Placeholder(LanguageName), val |-> req.context.language],
       [ph |-> Placeholder(ContextName), val |-> format_context_fields(req.context)] >>

\* placeholder in replacements
InTable(reps, ph) == \E n \in 1..Len(reps) : reps[n].ph = ph

\* lines 113-118: the additional fields of request.dict(exclude_none=True),
\* each added unless its placeholder is in the table already
RECURSIVE AddExtraFields(_, _)
AddExtraFields(reps, extra) ==
    IF extra = <<>> THEN reps
    ELSE LET f == Head(extra) IN
         IF f.v # None /\ ~InTable(reps, Placeholder(f.k))
         THEN AddExtraFields(Append(reps, [ph |-> Placeholder(f.k), val |-> ToStr(f.v)]),
                             Tail(extra))
         ELSE AddExtraFields(reps, Tail(extra))

replacements(req) == AddExtraFields(ReservedReplacements(req), req.extra)

\* lines 121-122: one str.replace after another, each on the result of the last
RECURSIVE ReplaceAll(_, _)
ReplaceAll(template, reps) ==
    IF reps = <<>> THEN template
    ELSE ReplaceAll(Replace(template, Head(reps).ph, Head(reps).val), Tail(reps))

\* lines 99-124
TemplatePrompt(req) == ReplaceAll(req.template.v, replacements(req))

\* lines 131-153: the f-string, its text character by character
EnglishPrompt(req, context_text) ==
    Concat(<<
        <<"G", "e", "n", "e", "r", "a", "t", "e", " ">>,
        IntStr(req.count),
        <<" ", "a", "g", "e", "-", "a", "p", "p", "r", "o", "p", "r", "i",
          "a", "t", "e", " ", "E", "n", "g", "l", "i", "s", "h", " ", "q",
          "u", "e", "s", "t", "i", "o", "n", "s", " ", "f", "o", "r", " ",
          "a", " ">>,
        IntStr(req.context.age),
        <<"-", "y", "e", "a", "r", "-", "o", "l", "d", " ", "s", "t", "u",
          "d", "e", "n", "t", " ", "i", "n", " ", "y", "e", "a", "r", " ",
          "b", "a", "n", "d", " ">>,
        req.year_band,
        <<".", "\n", "\n", "C", "o", "n", "t", "e", "x", "t", ":", "\n">>,
        context_text,
        <<"\n", "-", " ", "E", "M", "A", " ", "(", "E", "x", "p", "e", "c",
          "t", "e", "d", " ", "M", "a", "s", "t", "e", "r", "y", " ", "A",
          "v", "e", "r", "a", "g", "e", ")", ":", " ">>,
        FloatStr(req.ema),
        <<"\n", "\n", "R", "e", "q", "u", "i", "r", "e", "m", "e", "n", "t",
          "s", ":", "\n", "-", " ", "Q", "u", "e", "s", "t", "i", "o", "n",
          "s", " ", "s", "h", "o", "u", "l", "d", " ", "b", "e", " ", "a",
          "p", "p", "r", "o", "p", "r", "i", "a", "t", "e", " ", "f", "o",
          "r", " ", "y", "e", "a", "r", " ", "b", "a", "n", "d", " ">>,
        req.year_band,
        <<"\n", "-", " ", "D", "i", "f", "f", "i", "c", "u", "l", "t", "y",
          " ", "s", "h", "o", "u", "l", "d", " ", "a", "l", "i", "g", "n",
          " ", "w", "i", "t", "h", " ", "E", "M", "A", " ", "s", "c", "o",
          "r", "e", " ", "o", "f", " ">>,
        FloatStr(req.ema),
        <<"\n", "-", " ", "Q", "u", "e", "s", "t", "i", "o", "n", "s", " ",
          "s", "h", "o", "u", "l", "d", " ", "m", "a", "t", "c", "h", " ",
          "t", "h", "e", " ", "s", "t", "u", "d", "e", "n", "t", "'", "s",
          " ", "E", "n", "g", "l", "i", "s", "h", " ", "p", "r", "o", "f",
          "i", "c", "i", "e", "n", "c", "y", " ", "l", "e", "v", "e", "l",
          "\n", "-", " ", "R", "e", "t", "u", "r", "n", " ", "q", "u", "e",
          "s", "t", "i", "o", "n", "s", " ", "i", "n", " ">>,
        req.context.language,
        <<"\n", "\n", "R", "e", "t", "u", "r", "n", " ", "a", " ", "J", "S",
          "O", "N", " ", "a", "r", "r", "a", "y", " ", "w", "i", "t", "h",
          " ">>,
        IntStr(req.count),
        <<" ", "q", "u", "e", "s", "t", "i", "o", "n", "s", ".", " ", "E",
          "a", "c", "h", " ", "q", "u", "e", "s", "t", "i", "o", "n", " ",
          "s", "h", "o", "u", "l", "d", " ", "h", "a", "v", "e", ":", "\n",
          "-", " ", "\"", "i", "d", "\"", ":", " ", "u", "n", "i", "q", "u",
          "e", " ", "i", "d", "e", "n", "t", "i", "f", "i", "e", "r", "\n",
          "-", " ", "\"", "q", "u", "e", "s", "t", "i", "o", "n", "\"", ":",
          " ", "t", "h", "e", " ", "q", "u", "e", "s", "t", "i", "o", "n",
          " ", "t", "e", "x", "t", "\n", "-", " ", "\"", "t", "y", "p", "e",
          "\"", ":", " ", "q", "u", "e", "s", "t", "i", "o", "n", " ", "t",
          "y", "p", "e", " ", "(", "e", ".", "g", ".", ",", " ", "\"", "m",
          "u", "l", "t", "i", "p", "l", "e", "_", "c", "h", "o", "i", "c",
          "e", "\"", ",", " ", "\"", "f", "i", "l", "l", "_", "i", "n", "_",
          "b", "l", "a", "n", "k", "\"", ",", "\n", " ", " ", "\"", "c", "o",
          "m", "p", "r", "e", "h", "e", "n", "s", "i", "o", "n", "\"", ",",
          " ", "e", "t", "c", ".", ")", "\n", "-", " ", "\"", "o", "p", "t",
          "i", "o", "n", "s", "\"", ":", " ", "a", "r", "r", "a", "y", " ",
          "o", "f", " ", "a", "n", "s", "w", "e", "r", " ", "o", "p", "t",
          "i", "o", "n", "s", " ", "(", "i", "f", " ", "a", "p", "p", "l",
          "i", "c", "a", "b", "l", "e", ")", "\n", "-", " ", "\"", "c", "o",
          "r", "r", "e", "c", "t", "_", "a", "n", "s", "w", "e", "r", "\"",
          ":", " ", "t", "h", "e", " ", "c", "o", "r", "r", "e", "c", "t",
          " ", "a", "n", "s", "w", "e", "r", "\n", "-", " ", "\"", "d", "i",
          "f", "f", "i", "c", "u", "l", "t", "y", "\"", ":", " ", "d", "i",
          "f", "f", "i", "c", "u", "l", "t", "y", " ", "l", "e", "v", "e",
          "l", "\n", "-", " ", "\"", "e", "x", "p", "l", "a", "n", "a", "t",
          "i", "o", "n", "\"", ":", " ", "b", "r", "i", "e", "f", " ", "e",
          "x", "p", "l", "a", "n", "a", "t", "i", "o", "n", " ", "o", "f",
          " ", "t", "h", "e", " ", "a", "n", "s", "w", "e", "r", "\n", "\n",
          "F", "o", "r", "m", "a", "t", " ", "t", "h", "e", " ", "r", "e",
          "s", "p", "o", "n", "s", "e", " ", "a", "s", " ", "v", "a", "l",
          "i", "d", " ", "J", "S", "O", "N", " ", "o", "n", "l", "y", ",",
          " ", "n", "o", " ", "m", "a", "r", "k", "d", "o", "w", "n", " ",
          "f", "o", "r", "m", "a", "t", "t", "i", "n", "g", ".">> >>)

\* lines 156-178: the f-string, its text character by character
MathPrompt(req, context_text) ==
    Concat(<<
        <<"G", "e", "n", "e", "r", "a", "t", "e", " ">>,
        IntStr(req.count),
        <<" ", "a", "g", "e", "-", "a", "p", "p", "r", "o", "p", "r", "i",
          "a", "t", "e", " ", "M", "a", "t", "h", " ", "q", "u", "e", "s",
          "t", "i", "o", "n", "s", " ", "f", "o", "r", " ", "a", " ">>,
        IntStr(req.context.age),
        <<"-", "y", "e", "a", "r", "-", "o", "l", "d", " ", "s", "t", "u",
          "d", "e", "n", "t", " ", "i", "n", " ", "y", "e", "a", "r", " ",
          "b", "a", "n", "d", " ">>,
        req.year_band,
        <<".", "\n", "\n", "C", "o", "n", "t", "e", "x", "t", ":", "\n">>,
        context_text,
        <<"\n", "-", " ", "E", "M", "A", " ", "(", "E", "x", "p", "e", "c",
          "t", "e", "d", " ", "M", "a", "s", "t", "e", "r", "y", " ", "A",
          "v", "e", "r", "a", "g", "e", ")", ":", " ">>,
        FloatStr(req.ema),
        <<"\n", "\n", "R", "e", "q", "u", "i", "r", "e", "m", "e", "n", "t",
          "s", ":", "\n", "-", " ", "Q", "u", "e", "s", "t", "i", "o", "n",
          "s", " ", "s", "h", "o", "u", "l", "d", " ", "b", "e", " ", "a",
          "p", "p", "r", "o", "p", "r", "i", "a", "t", "e", " ", "f", "o",
          "r", " ", "y", "e", "a", "r", " ", "b", "a", "n", "d", " ">>,
        req.year_band,
        <<"\n", "-", " ", "D", "i", "f", "f", "i", "c", "u", "l", "t", "y",
          " ", "s", "h", "o", "u", "l", "d", " ", "a", "l", "i", "g", "n",
          " ", "w", "i", "t", "h", " ", "E", "M", "A", " ", "s", "c", "o",
          "r", "e", " ", "o", "f", " ">>,
        FloatStr(req.ema),
        <<"\n", "-", " ", "Q", "u", "e", "s", "t", "i", "o", "n", "s", " ",
          "s", "h", "o", "u", "l", "d", " ", "m", "a", "t", "c", "h", " ",
          "t", "h", "e", " ", "s", "t", "u", "d", "e", "n", "t", "'", "s",
          " ", "m", "a", "t", "h", " ", "p", "r", "o", "f", "i", "c", "i",
          "e", "n", "c", "y", " ", "l", "e", "v", "e", "l", "\n", "-", " ",
          "R", "e", "t", "u", "r", "n", " ", "q", "u", "e", "s", "t", "i",
          "o", "n", "s", " ", "i", "n", " ">>,
        req.context.language,
        <<"\n", "\n", "R", "e", "t", "u", "r", "n", " ", "a", " ", "J", "S",
          "O", "N", " ", "a", "r", "r", "a", "y", " ", "w", "i", "t", "h",
          " ">>,
        IntStr(req.count),
        <<" ", "q", "u", "e", "s", "t", "i", "o", "n", "s", ".", " ", "E",
          "a", "c", "h", " ", "q", "u", "e", "s", "t", "i", "o", "n", " ",
          "s", "h", "o", "u", "l", "d", " ", "h", "a", "v", "e", ":", "\n",
          "-", " ", "\"", "i", "d", "\"", ":", " ", "u", "n", "i", "q", "u",
          "e", " ", "i", "d", "e", "n", "t", "i", "f", "i", "e", "r", "\n",
          "-", " ", "\"", "q", "u", "e", "s", "t", "i", "o", "n", "\"", ":",
          " ", "t", "h", "e", " ", "q", "u", "e", "s", "t", "i", "o", "n",
          " ", "t", "e", "x", "t", "\n", "-", " ", "\"", "t", "y", "p", "e",
          "\"", ":", " ", "q", "u", "e", "s", "t", "i", "o", "n", " ", "t",
          "y", "p", "e", " ", "(", "e", ".", "g", ".", ",", " ", "\"", "m",
          "u", "l", "t", "i", "p", "l", "e", "_", "c", "h", "o", "i", "c",
          "e", "\"", ",", " ", "\"", "w", "o", "r", "d", "_", "p", "r", "o",
          "b", "l", "e", "m", "\"", ",", "\n", " ", " ", "\"", "c", "a", "l",
          "c", "u", "l", "a", "t", "i", "o", "n", "\"", ",", " ", "e", "t",
          "c", ".", ")", "\n", "-", " ", "\"", "o", "p", "t", "i", "o", "n",
          "s", "\"", ":", " ", "a", "r", "r", "a", "y", " ", "o", "f", " ",
          "a", "n", "s", "w", "e", "r", " ", "o", "p", "t", "i", "o", "n",
          "s", " ", "(", "i", "f", " ", "a", "p", "p", "l", "i", "c", "a",
          "b", "l", "e", ")", "\n", "-", " ", "\"", "c", "o", "r", "r", "e",
          "c", "t", "_", "a", "n", "s", "w", "e", "r", "\"", ":", " ", "t",
          "h", "e", " ", "c", "o", "r", "r", "e", "c", "t", " ", "a", "n",
          "s", "w", "e", "r", "\n", "-", " ", "\"", "d", "i", "f", "f", "i",
          "c", "u", "l", "t", "y", "\"", ":", " ", "d", "i", "f", "f", "i",
          "c", "u", "l", "t", "y", " ", "l", "e", "v", "e", "l", "\n", "-",
          " ", "\"", "e", "x", "p", "l", "a", "n", "a", "t", "i", "o", "n",
          "\"", ":", " ", "b", "r", "i", "e", "f", " ", "e", "x", "p", "l",
          "a", "n", "a", "t", "i", "o", "n", " ", "o", "f", " ", "t", "h",
          "e", " ", "s", "o", "l", "u", "t", "i", "o", "n", "\n", "\n", "F",
          "o", "r", "m", "a", "t", " ", "t", "h", "e", " ", "r", "e", "s",
          "p", "o", "n", "s", "e", " ", "a", "s", " ", "v", "a", "l", "i",
          "d", " ", "J", "S", "O", "N", " ", "o", "n", "l", "y", ",", " ",
          "n", "o", " ", "m", "a", "r", "k", "d", "o", "w", "n", " ", "f",
          "o", "r", "m", "a", "t", "t", "i", "n", "g", ".">> >>)

\* lines 181-196: the f-string, its text character by character
GenericPrompt(req, context_text) ==
    Concat(<<
        <<"G", "e", "n", "e", "r", "a", "t", "e", " ">>,
        IntStr(req.count),
        <<" ", "a", "g", "e", "-", "a", "p", "p", "r", "o", "p", "r", "i",
          "a", "t", "e", " ">>,
        req.subject,
        <<" ", "q", "u", "e", "s", "t", "i", "o", "n", "s", " ", "f", "o",
          "r", " ", "a", " ">>,
        IntStr(req.context.age),
        <<"-", "y", "e", "a", "r", "-", "o", "l", "d", " ", "s", "t", "u",
          "d", "e", "n", "t", " ", "i", "n", " ", "y", "e", "a", "r", " ",
          "b", "a", "n", "d", " ">>,
        req.year_band,
        <<".", "\n", "\n", "C", "o", "n", "t", "e", "x", "t", ":", "\n">>,
        context_text,
        <<"\n", "-", " ", "E", "M", "A", " ", "(", "E", "x", "p", "e", "c",
          "t", "e", "d", " ", "M", "a", "s", "t", "e", "r", "y", " ", "A",
          "v", "e", "r", "a", "g", "e", ")", ":", " ">>,
        FloatStr(req.ema),
        <<"\n", "\n", "R", "e", "t", "u", "r", "n", " ", "a", " ", "J", "S",
          "O", "N", " ", "a", "r", "r", "a", "y", " ", "w", "i", "t", "h",
          " ">>,
        IntStr(req.count),
        <<" ", "q", "u", "e", "s", "t", "i", "o", "n", "s", ".", " ", "E",
          "a", "c", "h", " ", "q", "u", "e", "s", "t", "i", "o", "n", " ",
          "s", "h", "o", "u", "l", "d", " ", "h", "a", "v", "e", ":", "\n",
          "-", " ", "\"", "i", "d", "\"", ":", " ", "u", "n", "i", "q", "u",
          "e", " ", "i", "d", "e", "n", "t", "i", "f", "i", "e", "r", "\n",
          "-", " ", "\"", "q", "u", "e", "s", "t", "i", "o", "n", "\"", ":",
          " ", "t", "h", "e", " ", "q", "u", "e", "s", "t", "i", "o", "n",
          " ", "t", "e", "x", "t", "\n", "-", " ", "\"", "t", "y", "p", "e",
          "\"", ":", " ", "q", "u", "e", "s", "t", "i", "o", "n", " ", "t",
          "y", "p", "e", "\n", "-", " ", "\"", "o", "p", "t", "i", "o", "n",
          "s", "\"", ":", " ", "a", "r", "r", "a", "y", " ", "o", "f", " ",
          "a", "n", "s", "w", "e", "r", " ", "o", "p", "t", "i", "o", "n",
          "s", " ", "(", "i", "f", " ", "a", "p", "p", "l", "i", "c", "a",
          "b", "l", "e", ")", "\n", "-", " ", "\"", "c", "o", "r", "r", "e",
          "c", "t", "_", "a", "n", "s", "w", "e", "r", "\"", ":", " ", "t",
          "h", "e", " ", "c", "o", "r", "r", "e", "c", "t", " ", "a", "n",
          "s", "w", "e", "r", "\n", "-", " ", "\"", "d", "i", "f", "f", "i",
          "c", "u", "l", "t", "y", "\"", ":", " ", "d", "i", "f", "f", "i",
          "c", "u", "l", "t", "y", " ", "l", "e", "v", "e", "l", "\n", "-",
          " ", "\"", "e", "x", "p", "l", "a", "n", "a", "t", "i", "o", "n",
          "\"", ":", " ", "b", "r", "i", "e", "f", " ", "e", "x", "p", "l",
          "a", "n", "a", "t", "i", "o", "n", "\n", "\n", "F", "o", "r", "m",
          "a", "t", " ", "t", "h", "e", " ", "r", "e", "s", "p", "o", "n",
          "s", "e", " ", "a", "s", " ", "v", "a", "l", "i", "d", " ", "J",
          "S", "O", "N", " ", "o", "n", "l", "y", ",", " ", "n", "o", " ",
          "m", "a", "r", "k", "d", "o", "w", "n", " ", "f", "o", "r", "m",
          "a", "t", "t", "i", "n", "g", ".">> >>)

English == <<"e", "n", "g", "l", "i", "s", "h">>
Math == <<"m", "a", "t", "h">>

\* lines 127-198
DefaultPrompt(req) ==
    LET subject_lower == Lower(req.subject)
        context_text == format_context_fields(req.context)
    IN  IF subject_lower = English THEN EnglishPrompt(req, context_text)
        ELSE IF subject_lower = Math THEN MathPrompt(req, context_text)
        ELSE GenericPrompt(req, context_text)

\* a variant of the test of line 97: "request.template is not None"
UsesTemplateIfNotNone(req) == req.template # None

\* line 97: "if request.template", false for None and for the empty string
UsesTemplate(req) == req.template # None /\ req.template.v # <<>>

\* generate_prompt
generate_prompt(req) ==
    IF UsesTemplate(req) THEN TemplatePrompt(req) ELSE DefaultPrompt(req)

-----------------------------------------------------------------------------
(* The requests the prompt builder is run on                               *)

MaxTplFrags == 2

FooName == <<"f", "o", "o">>
NoteName == <<"n", "o", "t", "e">>
Y5 == <<"Y", "5">>

TplFrags == <<
    Placeholder(CountName), Placeholder(SubjectName), Placeholder(YearBandName),
    Placeholder(EmaName), Placeholder(AgeName), Placeholder(LanguageName),
    Placeholder(ContextName), Placeholder(FooName), Placeholder(NoteName),
    <<"{">>, <<"}">>, <<"A", "s", "k", " ">> >>

TemplatesOf(n) ==
    {Concat([k \in 1..n |-> TplFrags[f[k]]]) : f \in [1..n -> 1..Len(TplFrags)]}

Templates == {None} \cup {StrVal(t) : t \in UNION {TemplatesOf(n) : n \in 0..MaxTplFrags}}

PlainContext == [age |-> 7, onboarding_english_score |-> None,
                 onboarding_math_score |-> IntVal(90), language |-> En,
                 extra |-> <<>>]

PromptContexts ==
    {PlainContext,
     [PlainContext EXCEPT
         !.language = Placeholder(AgeName),
         !.extra = <<[k |-> LearningStyle, v |-> StrVal(Placeholder(EmaName))]>>]}

PromptExtras ==
    { <<>>,
      <<[k |-> FooName, v |-> StrVal(Placeholder(NoteName))],
        [k |-> NoteName, v |-> IntVal(4)]>>,
      <<[k |-> AgeName, v |-> IntVal(99)], [k |-> FooName, v |-> None]>> }

PromptRequests ==
    [action : {"generate"},
     year_band : {Y5},
     subject : {<<"E", "n", "g", "l", "i", "s", "h">>, <<"M", "A", "T", "H">>,
                Placeholder(AgeName)},
     count : {3},
     ema : {5},
     context : PromptContexts,
     template : Templates,
     extra : PromptExtras]

PromptInit ==
    /\ request \in PromptRequests
    /\ prompt = <<>>
    /\ gstate = "input"

CallGeneratePrompt ==
    /\ gstate = "input"
    /\ prompt' = generate_prompt(request)
    /\ gstate' = "called"
    /\ UNCHANGED request

PromptNext == CallGeneratePrompt /\ UNCHANGED <<parseVars, formatVars, handlerVars>>

-----------------------------------------------------------------------------
(* The specifications of the three functions, each run alone                *)

ParseOff == response_text = <<>> /\ parsed = NotCalled /\ pstate = "off"
FormatOff == context = PlainContext /\ context_lines = <<>> /\ context_str = <<>>
                 /\ fstate = "off"
PromptOff == request = None /\ prompt = <<>> /\ gstate = "off"

NoResponse == [status |-> 0, questions |-> <<>>, detail |-> "none"]
HandlerOff == endpoint = "none" /\ pc = "off" /\ calls = <<>> /\ response = NoResponse

\* each function's inputs, the rest of the state at rest
InitParse == ParseInit /\ FormatOff /\ PromptOff /\ HandlerOff
InitFormat == FormatInit /\ ParseOff /\ PromptOff /\ HandlerOff
InitPrompt == PromptInit /\ ParseOff /\ FormatOff /\ HandlerOff

SpecParse == InitParse /\ [][ParseNext]_vars
SpecFormat == InitFormat /\ [][FormatNext]_vars
SpecPrompt == InitPrompt /\ [][PromptNext]_vars

-----------------------------------------------------------------------------
(* Properties of generate_prompt (SpecPrompt)                              *)

Generated == gstate = "called"

HasTemplate == request.template # None

\* the placeholder of the table that text has at position i, or 0
EntryAt(text, reps, i) ==
    IF \E n \in 1..Len(reps) : MatchesAt(text, reps[n].ph, i)
    THEN CHOOSE n \in 1..Len(reps) :
             /\ MatchesAt(text, reps[n].ph, i)
             /\ \A m \in 1..(n - 1) : ~MatchesAt(text, reps[m].ph, i)
    ELSE 0

\* substitution in one pass over the template: what is put in for a
\* placeholder is not looked at again
RECURSIVE OnePass(_, _, _)
OnePass(text, reps, i) ==
    IF i > Len(text) THEN <<>>
    ELSE LET n == EntryAt(text, reps, i) IN
         IF n = 0 THEN <<text[i]>> \o OnePass(text, reps, i + 1)
         ELSE reps[n].val \o OnePass(text, reps, i + Len(reps[n].ph))

\* C5: in template mode substitution is not recursive: a {name} token inside
\* a substituted value is in the returned prompt unchanged, so the prompt is
\* the template with each of its own placeholders replaced by its value.
C5_NoRecursiveSubstitution ==
    Generated /\ UsesTemplate(request) =>
        prompt = OnePass(request.template.v, replacements(request), 1)

\* a {...} token: an opening brace, a closing brace behind it, no brace between
TokenAt(text, i, j) ==
    /\ i < j
    /\ text[i] = "{"
    /\ text[j] = "}"
    /\ \A k \in (i + 1)..(j - 1) : text[k] \notin {"{", "}"}

HasToken(text) == \E i, j \in 1..Len(text) : TokenAt(text, i, j)

ReservedNames == {CountName, SubjectName, YearBandName, EmaName, AgeName,
                  LanguageName, ContextName}

\* every {...} token of the text is the placeholder of a reserved name
OnlyReservedTokens(text) ==
    \A i, j \in 1..Len(text) :
        TokenAt(text, i, j) => SubSeq(text, i + 1, j - 1) \in ReservedNames

\* C6 as stated: a template whose placeholders are all of the seven reserved
\* names gives a prompt with no {...} token, whatever the values are.
C6_NoTokenLeft ==
    Generated /\ UsesTemplate(request) /\ OnlyReservedTokens(request.template.v) =>
        ~HasToken(prompt)

NoBrace(text) == \A i \in 1..Len(text) : text[i] \notin {"{", "}"}

\* the text outside the reserved placeholders of a template
RECURSIVE OutsideReserved(_, _)
OutsideReserved(text, i) ==
    IF i > Len(text) THEN <<>>
    ELSE IF \E name \in ReservedNames : MatchesAt(text, Placeholder(name), i)
         THEN LET name == CHOOSE name \in ReservedNames :
                              MatchesAt(text, Placeholder(name), i)
              IN  OutsideReserved(text, i + Len(name) + 2)
    ELSE <<text[i]>> \o OutsideReserved(text, i + 1)

\* the values of the seven reserved placeholders hold no brace
BraceFreeValues(req) ==
    /\ NoBrace(req.subject)
    /\ NoBrace(req.year_band)
    /\ NoBrace(req.context.language)
    /\ \A n \in 1..Len(req.context.extra) :
           /\ NoBrace(req.context.extra[n].k)
           /\ NoBrace(ToStr(req.context.extra[n].v))

\* C6 as amended: a template that is text without braces and placeholders of
\* the seven reserved names, filled with values that hold no brace, gives a
\* prompt with no {...} token.
C6_NoTokenLeftBraceFree ==
    /\ Generated
    /\ UsesTemplate(request)
    /\ NoBrace(OutsideReserved(request.template.v, 1))
    /\ BraceFreeValues(request)
    => ~HasToken(prompt)

C6_Witness ==
    /\ Generated
    /\ UsesTemplate(request)
    /\ NoBrace(OutsideReserved(request.template.v, 1))
    /\ BraceFreeValues(request)
    /\ Contains(request.template.v, Placeholder(LanguageName))
    /\ Contains(request.template.v, Placeholder(ContextName))
    /\ request.extra # <<>>

BuiltIn(req) ==
    {EnglishPrompt(req, format_context_fields(req.context)),
     MathPrompt(req, format_context_fields(req.context)),
     GenericPrompt(req, format_context_fields(req.context))}

\* C7 as stated: a request that carries a template, any string, gets that
\* template with its placeholders substituted and no built-in template; only a
\* request without a template gets a built-in template.
C7_ModeByPresence ==
    Generated =>
        /\ HasTemplate =>
               /\ prompt = TemplatePrompt(request)
               /\ prompt \notin BuiltIn(request)
        /\ ~HasTemplate => prompt \in BuiltIn(request)

\* C7 as amended: a request that carries a template that is not the empty
\* string gets that template substituted and no built-in template; a request
\* without a template, or with the empty string as its template, gets a
\* built-in template.
C7_ModeByNonEmptyTemplate ==
    Generated =>
        /\ HasTemplate /\ request.template.v # <<>> =>
               /\ prompt = TemplatePrompt(request)
               /\ prompt \notin BuiltIn(request)
        /\ ~HasTemplate \/ request.template.v = <<>> => prompt \in BuiltIn(request)

C7_Witness ==
    /\ Generated
    /\ HasTemplate
    /\ request.template.v = <<>>
    /\ prompt = MathPrompt(request, format_context_fields(request.context))

-----------------------------------------------------------------------------
(* The requests and the model's texts the handler is run on                *)

MaxCount == 2
MaxRecords == 3

\* {"id":i}
RecordText(i) == <<"{", "\"", "i", "d", "\"", ":">> \o IntStr(i) \o <<"}">>

\* [{"id":1},...,{"id":k}]
ListText(k) == <<"[">> \o Join([i \in 1..k |-> RecordText(i)], <<",">>) \o <<"]">>

ModelTexts ==
    {ListText(k) : k \in 0..MaxRecords}
    \cup {FenceJson \o <<"\n">> \o ListText(MaxRecords) \o <<"\n">> \o Fence,
          <<"h", "i", " ">> \o ListText(MaxRecords) \o <<" ", "o", "k">>,
          Frags[4] \o ListText(MaxRecords) \o <<"}">>,
          Frags[4] \o <<"1", "}">>,
          Frags[4] \o <<"\"", "a", "b", "\"", "}">>,
          <<"[", "1", "]">>,
          <<"n", "o", "t", " ", "j", "s", "o", "n">>}

HandlerRequests ==
    [action : {"generate", "delete"},
     year_band : {Y5},
     subject : {<<"E", "n", "g", "l", "i", "s", "h">>, <<"M", "A", "T", "H">>},
     count : (-MaxCount)..MaxCount,
     ema : {5},
     context : {PlainContext},
     template : {None, StrVal(Placeholder(CountName) \o <<" ">> \o Placeholder(SubjectName))},
     extra : {<<>>}]

-----------------------------------------------------------------------------
(* generate_english_questions and generate_math_questions: the same handler *)
(* but for the subject it accepts.  pc: "received", "prompted" (the prompt  *)
(* is built, model.generate_content is being called), "replied" (the model  *)
(* returned text), "parsed" (parse_llm_response returned), "done".          *)

\* HTTPException(status_code, detail): a failure carries no questions
HttpError(code, why) == [status |-> code, questions |-> <<>>, detail |-> why]

\* QuestionResponse(success=True, questions=...) as the answer
Success(qs) == [status |-> 200, questions |-> qs, detail |-> "success"]

\* a variant of the slice that ignores a negative stop
SliceClamped(xs, n) ==
    IF n < 0 THEN <<>> ELSE SubSeq(xs, 1, IF n < Len(xs) THEN n ELSE Len(xs))

\* xs[:n] of a list
Slice(xs, n) ==
    LET stop == IF n < 0 THEN (IF Len(xs) + n < 0 THEN 0 ELSE Len(xs) + n)
                ELSE IF n > Len(xs) THEN Len(xs) ELSE n
    IN  SubSeq(xs, 1, stop)

\* lines 57-60: questions: list[Dict[str, Any]]
ValidQuestions(x) == IsList(x) /\ \A n \in 1..Len(x.v) : IsDict(x.v[n])

\* lines 274-283 and 330-339
ValidRequest == request.action = "generate" /\ Lower(request.subject) = endpoint

Reject ==
    /\ pc = "received"
    /\ ~ValidRequest
    /\ response' = HttpError(400, "validation")
    /\ pc' = "done"
    /\ UNCHANGED <<endpoint, calls, request, prompt, gstate, parseVars, formatVars>>

\* lines 287 and 343
BuildPrompt ==
    /\ pc = "received"
    /\ ValidRequest
    /\ prompt' = generate_prompt(request)
    /\ pc' = "prompted"
    /\ UNCHANGED <<endpoint, calls, response, request, gstate, parseVars, formatVars>>

\* lines 290-291 and 346-347: the model returns a text
ModelReplies ==
    /\ pc = "prompted"
    /\ \E text \in ModelTexts : response_text' = text
    /\ calls' = Append(calls, "text")
    /\ pc' = "replied"
    /\ UNCHANGED <<endpoint, response, promptVars, parsed, pstate, formatVars>>

\* a variant of the failure that calls the model once more before giving up
ModelFailsRetryOnce ==
    /\ pc = "prompted"
    /\ calls' = Append(calls, "error")
    /\ IF calls = <<>>
       THEN pc' = "prompted" /\ UNCHANGED response
       ELSE pc' = "done" /\ response' = HttpError(500, "provider")
    /\ UNCHANGED <<endpoint, promptVars, parseVars, formatVars>>

\* lines 290 and 305-309: model.generate_content raises
ModelFails ==
    /\ pc = "prompted"
    /\ calls' = Append(calls, "error")
    /\ response' = HttpError(500, "provider")
    /\ pc' = "done"
    /\ UNCHANGED <<endpoint, promptVars, parseVars, formatVars>>

\* lines 294 and 305-309: parse_llm_response returns, or raises and the
\* handler answers 500
ParseReply ==
    /\ pc = "replied"
    /\ parsed' = parse_llm_response(response_text)
    /\ IF parsed'.outcome = "raise"
       THEN pc' = "done" /\ response' = HttpError(500, "parse")
       ELSE pc' = "parsed" /\ UNCHANGED response
    /\ UNCHANGED <<endpoint, calls, promptVars, response_text, pstate, formatVars>>

\* lines 297-303: questions[:request.count], then the response model; a value
\* that cannot be sliced, or that the response model refuses, ends in the
\* except clause of lines 305-309
Respond ==
    /\ pc = "parsed"
    /\ response' =
          IF IsList(parsed.value)
          THEN LET questions == [t |-> "list", v |-> Slice(parsed.value.v, request.count)]
               IN  IF ValidQuestions(questions) THEN Success(questions.v)
                   ELSE HttpError(500, "response")
          ELSE HttpError(500, "response")
    /\ pc' = "done"
    /\ UNCHANGED <<endpoint, calls, promptVars, parseVars, formatVars>>

\* a request has arrived at one of the two endpoints
Init ==
    /\ endpoint \in {English, Math}
    /\ request \in HandlerRequests
    /\ pc = "received"
    /\ calls = <<>>
    /\ response = NoResponse
    /\ prompt = <<>>
    /\ gstate = "off"
    /\ ParseOff
    /\ FormatOff

Next ==
    \/ Reject
    \/ BuildPrompt
    \/ ModelReplies
    \/ ModelFails
    \/ ParseReply
    \/ Respond

Spec == Init /\ [][Next]_vars

-----------------------------------------------------------------------------
(* Properties of the handlers (Spec)                                       *)

Answered == pc = "done"

\* C4: a successful response holds at most request.count question records, for
\* every integer count the request model accepts.
C4_AtMostCount ==
    Answered /\ response.status = 200 => Len(response.questions) <= request.count

\* C9: handling one request calls the model at most once; after the call
\* failed, or after the parser raised the parse error, the request has ended
\* as a failure that carries no question records, and the model is not called
\* again.
C9_AtMostOneCall ==
    /\ Len(calls) <= 1
    /\ (\E n \in 1..Len(calls) : calls[n] = "error") \/ parsed.outcome = "raise" =>
           /\ pc = "done"
           /\ response.status = 500
           /\ response.questions = <<>>
    /\ pc \in {"replied", "parsed"} => calls = <<"text">>

C9_WitnessParseError ==
    /\ Answered
    /\ calls = <<"text">>
    /\ parsed.outcome = "raise"
    /\ response.status = 500

=============================================================================
